---------------------------- MODULE Spec2Model ----------------------------
(***************************************************************************)
(* Model of pep604-converter (src/transformer.py).                         *)
(*                                                                         *)
(* A text is a sequence of lexemes; one lexeme stands for one character of *)
(* the Python string, so a column offset counts lexemes and "\n" is the    *)
(* line separator.  Two specifications are defined:                        *)
(*   SpecRewriter : the class Rewriter driven by arbitrary well-formed     *)
(*                  substitute calls followed by get_result;               *)
(*   Spec         : the class Transformer run by a caller (main.py) on an  *)
(*                  input text and then again on its own output.           *)
(***************************************************************************)
EXTENDS Integers, Sequences, FiniteSets, TLC

VARIABLES
    source,        \* Rewriter.source / Transformer._source of the current run
    operations,    \* Rewriter.operations
    call,          \* the last Rewriter.substitute call: [op, raised], or NoCall
    result,        \* what get_result / transform returned, or NoResult
    pc,            \* position of the caller
    tree,          \* Transformer.tree
    import_froms,  \* Transformer._import_froms
    imports,       \* Transformer._imports
    keep,          \* Transformer._keep_imports_for
    other,         \* Transformer._other_attrs_encountered
    run            \* the caller's count: substitute calls made (SpecRewriter),
                   \* Transformers constructed (Spec)

vars == <<source, operations, call, result, pc, tree, import_froms, imports,
          keep, other, run>>

NL == "\n"
NoCall == [op |-> "none", raised |-> FALSE]
NoResult == <<"<no result>">>
NoTree == [kind |-> "none"]

Min(a, b) == IF a < b THEN a ELSE b

\* Python slices s[:n] and s[n:] (both clamp to the length of s).
Take(s, n) == SubSeq(s, 1, Min(n, Len(s)))
Drop(s, n) == SubSeq(s, Min(n, Len(s)) + 1, Len(s))

RECURSIVE FirstNL(_, _)
FirstNL(s, i) ==
    IF i > Len(s) THEN 0
    ELSE IF s[i] = NL THEN i
    ELSE FirstNL(s, i + 1)

\* str.split("\n")
RECURSIVE SplitLines(_)
SplitLines(s) ==
    LET i == FirstNL(s, 1)
    IN  IF i = 0 THEN <<s>>
        ELSE <<SubSeq(s, 1, i - 1)>> \o SplitLines(SubSeq(s, i + 1, Len(s)))

\* "\n".join(lines)
RECURSIVE JoinLines(_)
JoinLines(lines) ==
    IF Len(lines) = 0 THEN <<>>
    ELSE IF Len(lines) = 1 THEN lines[1]
    ELSE lines[1] \o <<NL>> \o JoinLines(Tail(lines))

(***************************************************************************)
(* class Rewriter                                                          *)
(***************************************************************************)
Substitution(lineno, end_lineno, col_offset, end_col_offset, text) ==
    [lineno |-> lineno, end_lineno |-> end_lineno, col_offset |-> col_offset,
     end_col_offset |-> end_col_offset, text |-> text]

\* Rewriter._sort_key, and the order of the key tuples
SortKey(op) == <<op.lineno, op.col_offset>>
KeyLess(k1, k2) == k1[1] < k2[1] \/ (k1[1] = k2[1] /\ k1[2] < k2[2])

\* bisect.bisect (bisect_right) with key=_sort_key, on the slice [lo, hi)
RECURSIVE Bisect(_, _, _, _)
Bisect(ops, k, lo, hi) ==
    IF lo >= hi THEN lo
    ELSE LET mid == (lo + hi) \div 2
         IN  IF KeyLess(k, SortKey(ops[mid + 1]))
             THEN Bisect(ops, k, lo, mid)
             ELSE Bisect(ops, k, mid + 1, hi)

\* a plausible slip: only the line numbers are compared
CheckOverlapsLinesOnly(a, b) == a.end_lineno > b.lineno

\* Rewriter._check_overlaps: TRUE when ConflictingOperationsException is raised
CheckOverlaps(a, b) ==
    \/ a.end_lineno > b.lineno
    \/ (a.end_lineno = b.lineno /\ a.end_col_offset > b.col_offset)

\* a plausible slip: list.append instead of list.insert
InsertAppend(ops, idx, op) == Append(ops, op)

\* list.insert(idx, op), idx counted from 0
InsertAt(ops, idx, op) ==
    SubSeq(ops, 1, idx) \o <<op>> \o SubSeq(ops, idx + 1, Len(ops))

\* Rewriter.substitute from the overlap checks on, idx being the bisect result
SubstituteAt(ops, op, idx) ==
    IF \/ (idx > 0 /\ CheckOverlaps(ops[idx], op))
       \/ (idx < Len(ops) /\ CheckOverlaps(op, ops[idx + 1]))
    THEN [operations |-> ops, raised |-> TRUE]
    ELSE [operations |-> InsertAt(ops, idx, op), raised |-> FALSE]

\* Rewriter.substitute: the list after the call, and whether the call raised
Substitute(ops, op) ==
    SubstituteAt(ops, op, Bisect(ops, SortKey(op), 0, Len(ops)))

RemoveAt(lines, i) == SubSeq(lines, 1, i - 1) \o SubSeq(lines, i + 1, Len(lines))

\* one iteration of the loop of Rewriter.get_result, on the current lines
ApplyOp(lines, op) ==
    IF /\ op.text = <<>>
       /\ op.lineno = op.end_lineno
       /\ op.col_offset = 0
       /\ op.end_col_offset = Len(lines[op.lineno])
    THEN RemoveAt(lines, op.lineno)
    ELSE LET merged == Take(lines[op.lineno], op.col_offset) \o op.text
                       \o Drop(lines[op.end_lineno], op.end_col_offset)
         IN  SubSeq(lines, 1, op.lineno - 1) \o <<merged>>
             \o SubSeq(lines, op.end_lineno + 1, Len(lines))

\* does the loop index a line that is no longer there (IndexError)?
RECURSIVE RenderFails(_, _)
RenderFails(lines, ops) ==
    IF ops = <<>> THEN FALSE
    ELSE LET op == ops[Len(ops)]
         IN  \/ op.lineno > Len(lines)
             \/ op.end_lineno > Len(lines)
             \/ RenderFails(ApplyOp(lines, op), SubSeq(ops, 1, Len(ops) - 1))

\* for op in reversed(self.operations)
RECURSIVE ApplyReversed(_, _)
ApplyReversed(lines, ops) ==
    IF ops = <<>> THEN lines
    ELSE ApplyReversed(ApplyOp(lines, ops[Len(ops)]), SubSeq(ops, 1, Len(ops) - 1))

\* Rewriter.get_result
GetResult(src, ops) == JoinLines(ApplyReversed(SplitLines(src), ops))

(***************************************************************************)
(* ast.parse for the fragment of Python the inputs are written in:         *)
(*   module := { line "\n" } line                                          *)
(*   line   := "" | "#c" | "import" aliases | "from" NAME "import" aliases *)
(*           | NAME ":" expr                                               *)
(*   alias  := NAME [ "as" NAME ]                                          *)
(*   expr   := post { "|" post }                                           *)
(*   post   := atom [ "[" expr { "," expr } "]" ]                          *)
(*   atom   := NAME | NAME "." NAME | "None" | STRING                      *)
(* Inside brackets a "\n" is white space.  Every node carries the span     *)
(* (lineno, col_offset, end_lineno, end_col_offset) ast gives it.          *)
(***************************************************************************)
StrTokens == { "'T'" }

LineOf(s, i) == 1 + Cardinality({ j \in 1..(i - 1) : s[j] = NL })

ColOf(s, i) ==
    LET nls == { j \in 1..(i - 1) : s[j] = NL }
        last == IF nls = {} THEN 0 ELSE CHOOSE j \in nls : \A k \in nls : k <= j
    IN  i - 1 - last

\* the span of the lexemes s[i..j]
Span(s, i, j) ==
    [lineno |-> LineOf(s, i), col_offset |-> ColOf(s, i),
     end_lineno |-> LineOf(s, j), end_col_offset |-> ColOf(s, j) + 1]

At(s, i) == IF i >= 1 /\ i <= Len(s) THEN s[i] ELSE "<eof>"

RECURSIVE SkipNL(_, _)
SkipNL(s, i) == IF At(s, i) = NL THEN SkipNL(s, i + 1) ELSE i

\* white space before a lexeme: a line break counts only inside brackets
Skip(s, i, d) == IF d > 0 THEN SkipNL(s, i) ELSE i

\* the atom whose first lexeme is tok = s[i0]: the node, its first lexeme
\* and the lexeme after it
AtomAt(s, i0, tok) ==
    IF tok \in StrTokens
    THEN [node |-> [kind |-> "Constant", value |-> tok, is_str |-> TRUE]
                   @@ Span(s, i0, i0),
          from |-> i0, next |-> i0 + 1]
    ELSE IF tok = "None"
    THEN [node |-> [kind |-> "Constant", value |-> tok, is_str |-> FALSE]
                   @@ Span(s, i0, i0),
          from |-> i0, next |-> i0 + 1]
    ELSE IF At(s, i0 + 1) = "."
    THEN [node |-> [kind |-> "Attribute",
                    value |-> [kind |-> "Name", id |-> tok] @@ Span(s, i0, i0),
                    attr |-> At(s, i0 + 2)] @@ Span(s, i0, i0 + 2),
          from |-> i0, next |-> i0 + 3]
    ELSE [node |-> [kind |-> "Name", id |-> tok] @@ Span(s, i0, i0),
          from |-> i0, next |-> i0 + 1]

AtomFrom(s, i0) == AtomAt(s, i0, At(s, i0))

ParseAtom(s, i, d) == AtomFrom(s, Skip(s, i, d))

RECURSIVE ParseExpr(_, _, _)
RECURSIVE ParseElts(_, _, _, _)
RECURSIVE ParseBinRest(_, _, _)

\* the elements parsed so far with e added, and the rest after a ","
EltsWith(s, d, got, j) ==
    IF At(s, j) = "," THEN ParseElts(s, j + 1, d, got)
    ELSE got @@ [next |-> j]

EltsAfter(s, d, acc, e) ==
    EltsWith(s, d,
             [elts |-> Append(acc.elts, e.node),
              from |-> IF acc.elts = <<>> THEN e.from ELSE acc.from,
              last |-> e.next - 1],
             Skip(s, e.next, d))

\* the elements of a subscript, up to its "]": [elts, from, last, next]
ParseElts(s, i, d, acc) == EltsAfter(s, d, acc, ParseExpr(s, i, d))

\* the slice of a subscript: its only element, or the Tuple of its elements
SliceOf(s, es) ==
    IF Len(es.elts) = 1 THEN es.elts[1]
    ELSE [kind |-> "Tuple", elts |-> es.elts] @@ Span(s, es.from, es.last)

SubscriptOf(s, a, es) ==
    [node |-> [kind |-> "Subscript", value |-> a.node, slice |-> SliceOf(s, es),
               ctx |-> "Load"] @@ Span(s, a.from, es.next),
     from |-> a.from, next |-> es.next + 1]

PostOf(s, d, a) ==
    IF At(s, a.next) = "["
    THEN SubscriptOf(s, a, ParseElts(s, a.next + 1, d + 1,
                                     [elts |-> <<>>, from |-> 0, last |-> 0]))
    ELSE a

ParsePost(s, i, d) == PostOf(s, d, ParseAtom(s, i, d))

BinOpOf(s, left, r) ==
    [node |-> [kind |-> "BinOp", left |-> left.node, right |-> r.node]
              @@ Span(s, left.from, r.next - 1),
     from |-> left.from, next |-> r.next]

BinRestAt(s, left, d, j) ==
    IF At(s, j) = "|"
    THEN ParseBinRest(s, BinOpOf(s, left, ParsePost(s, j + 1, d)), d)
    ELSE left

ParseBinRest(s, left, d) == BinRestAt(s, left, d, Skip(s, left.next, d))

ParseExpr(s, i, d) == ParseBinRest(s, ParsePost(s, i, d), d)

\* the aliases of an import statement: [names, next]
RECURSIVE ParseAliases(_, _, _)

AliasesWith(s, acc, j) ==
    IF At(s, j) = "," THEN ParseAliases(s, j + 1, acc)
    ELSE [names |-> acc, next |-> j]

ParseAliases(s, i, acc) ==
    IF At(s, i + 1) = "as"
    THEN AliasesWith(s, Append(acc, [name |-> At(s, i), asname |-> At(s, i + 2)]),
                     i + 3)
    ELSE AliasesWith(s, Append(acc, [name |-> At(s, i), asname |-> ""]), i + 1)

ImportOf(s, i, a) ==
    [nodes |-> << [kind |-> "Import", names |-> a.names] @@ Span(s, i, a.next - 1) >>,
     next |-> a.next]

ImportFromOf(s, i, a) ==
    [nodes |-> << [kind |-> "ImportFrom", module |-> At(s, i + 1),
                   names |-> a.names] @@ Span(s, i, a.next - 1) >>,
     next |-> a.next]

AnnAssignOf(s, i, e) ==
    [nodes |-> << [kind |-> "AnnAssign",
                   target |-> [kind |-> "Name", id |-> At(s, i)] @@ Span(s, i, i),
                   annotation |-> e.node] @@ Span(s, i, e.next - 1) >>,
     next |-> e.next]

\* one line: [nodes, next], nodes being empty for a blank or comment line
ParseLine(s, i) ==
    IF At(s, i) = NL \/ At(s, i) = "<eof>" THEN [nodes |-> <<>>, next |-> i]
    ELSE IF At(s, i) = "#c" THEN [nodes |-> <<>>, next |-> i + 1]
    ELSE IF At(s, i) = "import" THEN ImportOf(s, i, ParseAliases(s, i + 1, <<>>))
    ELSE IF At(s, i) = "from" THEN ImportFromOf(s, i, ParseAliases(s, i + 3, <<>>))
    ELSE AnnAssignOf(s, i, ParseExpr(s, i + 2, 0))

RECURSIVE ParseBody(_, _)

BodyWith(s, l) == l.nodes \o ParseBody(s, l.next + 1)

ParseBody(s, i) ==
    IF i > Len(s) THEN <<>>
    ELSE BodyWith(s, ParseLine(s, i))

\* ast.parse(source, mode="exec")
Parse(s) == [kind |-> "Module", body |-> ParseBody(s, 1)]

(***************************************************************************)
(* ast helpers                                                             *)
(***************************************************************************)
\* ast.iter_child_nodes, the children that carry positions
Children(node) ==
    IF node.kind = "Module" THEN node.body
    ELSE IF node.kind = "AnnAssign" THEN <<node.target, node.annotation>>
    ELSE IF node.kind = "Subscript" THEN <<node.value, node.slice>>
    ELSE IF node.kind = "Attribute" THEN <<node.value>>
    ELSE IF node.kind = "BinOp" THEN <<node.left, node.right>>
    ELSE IF node.kind = "Tuple" THEN node.elts
    ELSE <<>>

\* ast.get_source_segment(source, node)
SourceSegment(src, node) ==
    LET lines == SplitLines(src)
    IN  IF node.end_lineno = node.lineno
        THEN SubSeq(lines[node.lineno], node.col_offset + 1, node.end_col_offset)
        ELSE JoinLines(<< Drop(lines[node.lineno], node.col_offset) >>
                       \o SubSeq(lines, node.lineno + 1, node.end_lineno - 1)
                       \o << Take(lines[node.end_lineno], node.end_col_offset) >>)

\* ast.increment_lineno(sub_tree, dl) followed by DedentTransformer.visit with
\* _n = n and _lineno = 1, on one node
Shift(node, dl, n) ==
    LET l == node.lineno + dl
        el == node.end_lineno + dl
    IN  [node EXCEPT !.lineno = l, !.end_lineno = el,
                     !.col_offset = IF l = 1 THEN @ - n ELSE @,
                     !.end_col_offset = IF el = 1 THEN @ - n ELSE @]

\* copy.deepcopy, ast.increment_lineno and DedentTransformer.transform
RECURSIVE Rebase(_, _, _)
Rebase(node, dl, n) ==
    LET m == Shift(node, dl, n)
    IN  IF node.kind = "Subscript"
        THEN [m EXCEPT !.value = Rebase(@, dl, n), !.slice = Rebase(@, dl, n)]
        ELSE IF node.kind = "Attribute"
        THEN [m EXCEPT !.value = Rebase(@, dl, n)]
        ELSE IF node.kind = "BinOp"
        THEN [m EXCEPT !.left = Rebase(@, dl, n), !.right = Rebase(@, dl, n)]
        ELSE IF node.kind = "Tuple"
        THEN [m EXCEPT !.elts = [k \in 1..Len(node.elts) |->
                                    Rebase(node.elts[k], dl, n)]]
        ELSE m

\* re.sub("^\n+", "", source)
RECURSIVE StripLeadingNL(_)
StripLeadingNL(s) ==
    IF s # <<>> /\ s[1] = NL THEN StripLeadingNL(Tail(s)) ELSE s

\* ast.unparse of an alias list, an Import and an ImportFrom
RECURSIVE UnparseAliases(_)
UnparseAliases(names) ==
    IF names = <<>> THEN <<>>
    ELSE LET a == names[1]
             one == IF a.asname = "" THEN <<a.name>> ELSE <<a.name, "as", a.asname>>
         IN  IF Len(names) = 1 THEN one
             ELSE one \o <<",">> \o UnparseAliases(Tail(names))

Unparse(node) ==
    IF node.kind = "Import" THEN <<"import">> \o UnparseAliases(node.names)
    ELSE <<"from", node.module, "import">> \o UnparseAliases(node.names)

(***************************************************************************)
(* class Transformer                                                       *)
(***************************************************************************)
rewritable_types == { "Union", "Optional" }
as_is_node_types == { "Constant", "Name", "Attribute" }

\* Transformer.__init__: the bookkeeping of one Transformer.  failed records
\* that an exception left the pass.
NewTransformer ==
    [ops |-> <<>>, failed |-> FALSE, keep |-> {}, other |-> FALSE,
     imports |-> {}, import_froms |-> {}]

\* what a call of Rewriter.substitute leaves in the bookkeeping
Registered(st, r) == [st EXCEPT !.ops = r.operations, !.failed = r.raised]

\* Transformer.substitute
SubstituteNode(st, node, text) ==
    Registered(st, Substitute(st.ops,
                       Substitution(node.lineno, node.end_lineno, node.col_offset,
                                    node.end_col_offset, text)))

\* the names a member import keeps, retention ignored
KeptNamesNoRetention(names, kept) ==
    SelectSeq(names, LAMBDA a : a.name \notin rewritable_types)

\* Transformer.rewrite_imports, the list comprehension of the member imports
KeptNames(names, kept) ==
    SelectSeq(names, LAMBDA a : a.name \notin rewritable_types \/ a.name \in kept)

\* the statement node with its names replaced, edited into the source
SubstituteNames(st, node, names) ==
    IF names = <<>> THEN SubstituteNode(st, node, <<>>)
    ELSE SubstituteNode(st, node, Unparse([node EXCEPT !.names = names]))

\* Transformer.rewrite_imports, the body of the loop over _imports
RewriteImport(st, node) ==
    SubstituteNames(st, node, SelectSeq(node.names, LAMBDA a : a.name # "typing"))

\* lines 164-168: the edit, if the member import lost a name
SubstituteIfPruned(st, node, names) ==
    IF Len(node.names) # Len(names) THEN SubstituteNames(st, node, names)
    ELSE st

\* Transformer.rewrite_imports, the body of the loop over _import_froms
RewriteImportFrom(st, node) ==
    SubstituteIfPruned(st, node, KeptNames(node.names, st.keep))

\* a loop over a set of statements; the statements of a file never overlap,
\* so the iteration order of the set does not show, and the first one is taken
First(nodes) ==
    CHOOSE n \in nodes : \A m \in nodes : ~KeyLess(SortKey(m), SortKey(n))

RECURSIVE ForEachImport(_, _)
ForEachImport(st, nodes) ==
    IF nodes = {} \/ st.failed THEN st
    ELSE ForEachImport(RewriteImport(st, First(nodes)), nodes \ {First(nodes)})

RECURSIVE ForEachImportFrom(_, _)
ForEachImportFrom(st, nodes) ==
    IF nodes = {} \/ st.failed THEN st
    ELSE ForEachImportFrom(RewriteImportFrom(st, First(nodes)),
                           nodes \ {First(nodes)})

\* Transformer.rewrite_imports
RewriteImports(st) ==
    ForEachImportFrom(
        IF ~st.other THEN ForEachImport(st, st.imports) ELSE st,
        st.import_froms)

\* " | ".join(sub_strs)
RECURSIVE JoinBar(_)
JoinBar(strs) ==
    IF strs = <<>> THEN <<>>
    ELSE IF Len(strs) = 1 THEN strs[1]
    ELSE strs[1] \o <<"|">> \o JoinBar(Tail(strs))

\* the head of a subscript: lhs in visit_Subscript
Lhs(node) ==
    IF node.value.kind = "Name" THEN node.value.id
    ELSE IF node.value.kind = "Attribute" /\ node.value.value.kind = "Name"
            /\ node.value.value.id = "typing"
    THEN node.value.attr
    ELSE ""

RECURSIVE Visit(_, _, _)
RECURSIVE VisitAll(_, _, _)
RECURSIVE SubTransformer(_, _, _)
RECURSIVE SubTransformAll(_, _, _, _)

\* NodeVisitor.generic_visit
GenericVisit(node, st, src) == VisitAll(Children(node), st, src)

VisitAll(nodes, st, src) ==
    IF nodes = <<>> \/ st.failed THEN st
    ELSE VisitAll(Tail(nodes), Visit(nodes[1], st, src), src)

\* Transformer.transform after the visit: rewrite_imports unless the visit raised
AfterVisit(st) == IF st.failed THEN st ELSE RewriteImports(st)

\* Transformer.transform, lines 138-139: [st, text], text being what is returned
Returned(src, st, bad) ==
    [st |-> [st EXCEPT !.failed = bad],
     text |-> IF bad THEN <<>> ELSE StripLeadingNL(GetResult(src, st.ops))]

Finish(src, st) ==
    Returned(src, st, st.failed \/ RenderFails(SplitLines(src), st.ops))

\* Transformer.transform of a Transformer(src, root): the bookkeeping after
\* the visit and the import rewrite, and the text returned
Transform(src, root) == Finish(src, AfterVisit(Visit(root, NewTransformer, src)))

\* sub_transformer after the yield: the inner bookkeeping merged into the outer
Merged(st, t) ==
    [st |-> [st EXCEPT !.failed = t.st.failed,
                       !.import_froms = @ \cup t.st.import_froms,
                       !.imports = @ \cup t.st.imports,
                       !.keep = @ \cup t.st.keep,
                       !.other = @ \/ t.st.other],
     text |-> t.text]

\* with self.sub_transformer(node) as t: sub_str = t.transform()
\* gives [st, text]: the outer bookkeeping after the with block, and sub_str
SubTransformer(node, st, src) ==
    Merged(st, Transform(SourceSegment(src, node),
                         Rebase(node, 1 - node.lineno, node.col_offset)))

\* sub_strs.append(sub_transformer.transform()), and the rest of the loop
AppendAndGoOn(elts, r, src, strs) ==
    SubTransformAll(Tail(elts), r.st, src, Append(strs, r.text))

\* the loop over node.slice.elts of the Union[X, Y] branch: [st, strs]
SubTransformAll(elts, st, src, strs) ==
    IF elts = <<>> \/ st.failed THEN [st |-> st, strs |-> strs]
    ELSE AppendAndGoOn(elts, SubTransformer(elts[1], st, src), src, strs)

\* self.substitute(node, text) after a sub-transformer, unless it raised
SubstituteAfter(node, r, text) ==
    IF r.st.failed THEN r.st ELSE SubstituteNode(r.st, node, text)

\* lines 212-214: Optional[T], T not as-is
OptionalOfSub(node, r) == SubstituteAfter(node, r, r.text \o <<"|", "None">>)

\* lines 226-235: Union[X, Y]
UnionOfSubs(node, r) ==
    SubstituteAfter(node, [st |-> r.st, text |-> <<>>], JoinBar(r.strs))

\* visit_Subscript, the branch "Union[X]"
VisitUnionSingle(node, st, src) ==
    SubstituteNode(st, node, SourceSegment(src, node.slice))

\* Transformer.visit_Subscript
VisitSubscript(node, st, src) ==
    LET lhs == Lhs(node)
        slice == node.slice
    IN  IF node.ctx = "Load" /\ lhs # "" /\ lhs \in rewritable_types
        THEN IF lhs = "Optional"
             THEN IF slice.kind = "Constant" /\ slice.is_str
                  THEN GenericVisit(node, [st EXCEPT !.keep = @ \cup {"Optional"}], src)
                  ELSE IF slice.kind \in as_is_node_types
                  THEN SubstituteNode(st, node,
                           SourceSegment(src, slice) \o <<"|", "None">>)
                  ELSE OptionalOfSub(node, SubTransformer(slice, st, src))
             ELSE IF slice.kind = "Tuple"
             THEN IF \E k \in 1..Len(slice.elts) :
                        slice.elts[k].kind = "Constant" /\ slice.elts[k].is_str
                  THEN GenericVisit(node, [st EXCEPT !.keep = @ \cup {"Union"}], src)
                  ELSE UnionOfSubs(node, SubTransformAll(slice.elts, st, src, <<>>))
             ELSE IF slice.kind = "Constant"
             THEN GenericVisit(node, [st EXCEPT !.keep = @ \cup {"Union"}], src)
             ELSE VisitUnionSingle(node, st, src)
        ELSE GenericVisit(node, st, src)

\* Transformer.visit_Import
VisitImport(node, st, src) ==
    IF \E k \in 1..Len(node.names) : node.names[k].name = "typing"
    THEN [st EXCEPT !.imports = @ \cup {node}]
    ELSE GenericVisit(node, st, src)

\* Transformer.visit_ImportFrom
VisitImportFrom(node, st, src) ==
    IF /\ node.module = "typing"
       /\ \E k \in 1..Len(node.names) : node.names[k].name \in rewritable_types
    THEN [st EXCEPT !.import_froms = @ \cup {node}]
    ELSE GenericVisit(node, st, src)

\* Transformer.visit_Attribute
VisitAttribute(node, st, src) ==
    GenericVisit(node,
        IF /\ node.value.kind = "Name"
           /\ node.value.id = "typing"
           /\ node.attr \notin rewritable_types
        THEN [st EXCEPT !.other = TRUE]
        ELSE st,
        src)

\* NodeVisitor.visit: dispatch on the node type
Visit(node, st, src) ==
    IF st.failed THEN st
    ELSE IF node.kind = "Import" THEN VisitImport(node, st, src)
    ELSE IF node.kind = "ImportFrom" THEN VisitImportFrom(node, st, src)
    ELSE IF node.kind = "Subscript" THEN VisitSubscript(node, st, src)
    ELSE IF node.kind = "Attribute" THEN VisitAttribute(node, st, src)
    ELSE GenericVisit(node, st, src)

(***************************************************************************)
(* SpecRewriter: a Rewriter over a small text, arbitrary substitute calls  *)
(***************************************************************************)
MaxCalls == 3

RewriterSources ==
    { <<"a", "b", NL, "c", "d">>,
      <<"a", "b", NL, NL, "c">> }

Positions(src) ==
    LET lines == SplitLines(src)
    IN  UNION { { <<l, c>> : c \in 0..Len(lines[l]) } : l \in 1..Len(lines) }

\* the edits a caller can ask for: spans inside the text, start not after end
Edits(src) ==
    UNION { { Substitution(s[1], e[1], s[2], e[2], t) :
                e \in { p \in Positions(src) : ~KeyLess(p, s) },
                t \in { <<>>, <<"X">> } } : s \in Positions(src) }

InitRewriter ==
    /\ source \in RewriterSources
    /\ operations = <<>>
    /\ call = NoCall
    /\ result = NoResult
    /\ pc = "editing"
    /\ tree = NoTree
    /\ import_froms = {}
    /\ imports = {}
    /\ keep = {}
    /\ other = FALSE
    /\ run = 0

\* rewriter.substitute(lineno, end_lineno, col_offset, end_col_offset, text)
SubstituteCall ==
    /\ pc = "editing"
    /\ run < MaxCalls
    /\ \E op \in Edits(source) :
          \E r \in { Substitute(operations, op) } :
              /\ operations' = r.operations
              /\ call' = [op |-> op, raised |-> r.raised]
    /\ run' = run + 1
    /\ UNCHANGED <<source, result, pc, tree, import_froms, imports, keep, other>>

\* rewriter.get_result()
GetResultCall ==
    /\ pc = "editing"
    /\ IF RenderFails(SplitLines(source), operations)
       THEN pc' = "failed" /\ result' = NoResult
       ELSE pc' = "rendered" /\ result' = GetResult(source, operations)
    /\ UNCHANGED <<source, operations, call, tree, import_froms, imports, keep,
                   other, run>>

NextRewriter == SubstituteCall \/ GetResultCall

SpecRewriter == InitRewriter /\ [][NextRewriter]_vars



(***************************************************************************)
(* Spec: main.py runs Transformer(source).transform() on an input file and *)
(* then again on the file it wrote                                         *)
(***************************************************************************)
MaxRuns == 2
MaxBlank == 1
MaxNames == 2

Subscripted(head, args) == head \o <<"[">> \o args \o <<"]">>

Heads == { <<"Optional">>, <<"Union">>, <<"List">>,
           <<"typing", ".", "Optional">>, <<"typing", ".", "Union">> }
UnionHeads == { <<"Union">>, <<"typing", ".", "Union">> }

Exprs0 == { <<"int">>, <<"'T'">>, <<"typing", ".", "Any">>, <<"t", ".", "Any">> }

\* one more level of subscripts around the expressions of es
Wrapped(es) ==
    es \cup { Subscripted(h, e) : h \in Heads, e \in es }
       \cup { Subscripted(h, e \o <<",">> \o a) :
                h \in UnionHeads, e \in es, a \in { <<"int">>, <<"'T'">> } }

Exprs == Wrapped(Wrapped(Exprs0))
    \cup { <<"Union", "[", NL, "int", ",", NL, "Optional", "[", "int", "]", "]">>,
           <<"Optional", "[", "List", "[", NL, "Union", "[", "int", "]", "]", "]">> }

RECURSIVE CommaList(_)
CommaList(names) ==
    IF Len(names) = 1 THEN <<names[1]>>
    ELSE <<names[1], ",">> \o CommaList(Tail(names))

ImportedNames == { "Optional", "Union", "Any" }

NameLists ==
    { ns \in UNION { [1..n -> ImportedNames] : n \in 1..MaxNames } :
        \A i \in 1..Len(ns) : \A j \in 1..Len(ns) : i # j => ns[i] # ns[j] }

ImportLines ==
    { <<>>,
      <<"import", "typing", NL>>,
      <<"import", "typing", ",", "os", NL>>,
      <<"import", "typing", "as", "t", NL>> }
    \cup { <<"from", "typing", "import">> \o CommaList(ns) \o <<NL>> :
             ns \in NameLists }

Preambles ==
    { [k \in 1..n |-> NL] : n \in 0..MaxBlank } \cup { <<"#c", NL>> }

\* the input files
Inputs ==
    { p \o i \o <<"x", ":">> \o e : p \in Preambles, i \in ImportLines, e \in Exprs }

Init ==
    /\ source \in Inputs
    /\ tree = Parse(source)
    /\ operations = <<>>
    /\ call = NoCall
    /\ result = NoResult
    /\ pc = "ready"
    /\ import_froms = {}
    /\ imports = {}
    /\ keep = {}
    /\ other = FALSE
    /\ run = 1

Bookkeeping ==
    [ops |-> operations, failed |-> FALSE, keep |-> keep, other |-> other,
     imports |-> imports, import_froms |-> import_froms]

\* transform: self.visit(self.tree)
VisitStep ==
    /\ pc = "ready"
    /\ \E st \in { Visit(tree, NewTransformer, source) } :
           /\ pc' = IF st.failed THEN "failed" ELSE "visited"
           /\ operations' = st.ops
           /\ keep' = st.keep
           /\ other' = st.other
           /\ imports' = st.imports
           /\ import_froms' = st.import_froms
    /\ UNCHANGED <<source, call, result, tree, run>>

\* transform: self.rewrite_imports()
RewriteImportsStep ==
    /\ pc = "visited"
    /\ \E st \in { RewriteImports(Bookkeeping) } :
           /\ pc' = IF st.failed THEN "failed" ELSE "imported"
           /\ operations' = st.ops
    /\ UNCHANGED <<source, call, result, tree, import_froms, imports, keep, other,
                   run>>

\* transform: source = self._rewriter.get_result();
\*            return re.sub("^\n+", "", source)
ReturnStep ==
    /\ pc = "imported"
    /\ IF RenderFails(SplitLines(source), operations)
       THEN pc' = "failed" /\ result' = NoResult
       ELSE pc' = "done" /\ result' = StripLeadingNL(GetResult(source, operations))
    /\ UNCHANGED <<source, operations, call, tree, import_froms, imports, keep,
                   other, run>>

\* main.rewrite_file on the file the previous run wrote
RunAgain ==
    /\ pc = "done"
    /\ run < MaxRuns
    /\ source' = result
    /\ tree' = Parse(result)
    /\ operations' = <<>>
    /\ result' = NoResult
    /\ pc' = "ready"
    /\ import_froms' = {}
    /\ imports' = {}
    /\ keep' = {}
    /\ other' = FALSE
    /\ run' = run + 1
    /\ UNCHANGED call

Next == VisitStep \/ RewriteImportsStep \/ ReturnStep \/ RunAgain

Spec == Init /\ [][Next]_vars

(***************************************************************************)
(* Claims about the Rewriter (checked under SpecRewriter)                  *)
(***************************************************************************)
StartPos(op) == <<op.lineno, op.col_offset>>
EndPos(op) == <<op.end_lineno, op.end_col_offset>>

\* two half-open spans share a position
Overlaps(a, b) == KeyLess(StartPos(a), EndPos(b)) /\ KeyLess(StartPos(b), EndPos(a))

\* C3: a substitute call whose edit overlaps an edit already registered
\* raises, and leaves the operations list as it was.
C3_OverlapRaises ==
    [][ (pc = "editing" /\ run' = run + 1) =>
          ( (\E i \in 1..Len(operations) : Overlaps(operations[i], call'.op))
              => (call'.raised /\ operations' = operations) ) ]_vars

C3_Witness ==
    /\ call.raised
    /\ Len(operations) >= 2
    /\ \E i \in 1..Len(operations) : Overlaps(operations[i], call.op)

\* C4: after any sequence of substitute calls the operations list is sorted
\* by (lineno, col_offset) and every earlier edit ends at or before the start
\* of every later edit.
C4_SortedNonOverlapping ==
    \A i \in 1..Len(operations) : \A j \in 1..Len(operations) :
        i < j => /\ ~KeyLess(SortKey(operations[j]), SortKey(operations[i]))
                 /\ ~KeyLess(StartPos(operations[j]), EndPos(operations[i]))

C4_Witness ==
    /\ call.raised
    /\ Len(operations) >= 2
    /\ run = MaxCalls

\* an edit that removes one whole line of the original snapshot
WholeLine0(lines0, op) ==
    /\ op.text = <<>>
    /\ op.lineno = op.end_lineno
    /\ op.col_offset = 0
    /\ op.end_col_offset = Len(lines0[op.lineno])

\* All edits applied in one forward scan of the original lines: (l, c) is the
\* next original position not yet copied, cur the output line being built.
RECURSIVE AtOnce(_, _, _, _, _, _, _)
AtOnce(lines0, ops, i, l, c, cur, out) ==
    IF i > Len(ops)
    THEN IF l > Len(lines0) THEN out
         ELSE out \o << cur \o Drop(lines0[l], c) >>
                  \o SubSeq(lines0, l + 1, Len(lines0))
    ELSE LET op == ops[i]
         IN  IF l < op.lineno
             THEN AtOnce(lines0, ops, i, l + 1, 0, <<>>,
                         Append(out, cur \o Drop(lines0[l], c)))
             ELSE IF WholeLine0(lines0, op)
             THEN AtOnce(lines0, ops, i + 1, l + 1, 0, cur, out)
             ELSE AtOnce(lines0, ops, i + 1, op.end_lineno, op.end_col_offset,
                         cur \o SubSeq(lines0[l], c + 1, op.col_offset) \o op.text,
                         out)

\* no other edit touches a line that an edit removes outright
Unambiguous(lines0, ops) ==
    \A i \in 1..Len(ops) : \A j \in 1..Len(ops) :
        (i # j /\ WholeLine0(lines0, ops[i])) =>
            ~(ops[j].lineno <= ops[i].lineno /\ ops[i].lineno <= ops[j].end_lineno)

\* C9: get_result equals applying all accepted edits at once in the
\* coordinates of the original snapshot.
C9_RenderAtOnce ==
    (pc = "rendered" /\ Unambiguous(SplitLines(source), operations)) =>
        result = JoinLines(AtOnce(SplitLines(source), operations, 1, 1, 0,
                                  <<>>, <<>>))

(***************************************************************************)
(* Claims about the Transformer (checked under Spec)                       *)
(***************************************************************************)
\* every node of a tree
RECURSIVE Nodes(_)
Nodes(node) ==
    {node} \cup UNION { Nodes(Children(node)[k]) : k \in 1..Len(Children(node)) }

WrapperUsage(n) ==
    n.kind = "Subscript" /\ n.ctx = "Load" /\ Lhs(n) \in { "Optional", "Union" }

IsStringLiteral(n) == n.kind = "Constant" /\ n.is_str

\* a wrapper usage with a string literal among its arguments
ForwardRefUsage(n) ==
    /\ WrapperUsage(n)
    /\ \/ IsStringLiteral(n.slice)
       \/ /\ Lhs(n) = "Union"
          /\ n.slice.kind = "Tuple"
          /\ \E k \in 1..Len(n.slice.elts) : IsStringLiteral(n.slice.elts[k])

RewritableUsage(n) == WrapperUsage(n) /\ ~ForwardRefUsage(n)

\* C1: transforming the output of transform again returns it unchanged.
C1_Idempotent ==
    (pc = "done" /\ run > 1) => result = source

\* C2: when the pass registers no edit, the output is identical to the input.
C2_NoEditNoChange ==
    (pc = "done" /\ operations = <<>>) => result = source

ImportsMember(t, w) ==
    \E n \in Nodes(t) :
        /\ n.kind = "ImportFrom"
        /\ n.module = "typing"
        /\ \E k \in 1..Len(n.names) : n.names[k].name = w

\* the name an "import typing" statement of t binds the module to
ModuleBindings(t) ==
    UNION { { IF n.names[k].asname = "" THEN "typing" ELSE n.names[k].asname :
                k \in { j \in 1..Len(n.names) : n.names[j].name = "typing" } } :
            n \in { m \in Nodes(t) : m.kind = "Import" } }

\* C5: a wrapper usage left unrewritten for a string-literal argument is
\* still a usage of that wrapper in the output, and the import that introduces
\* the wrapper name (member import or module import) is still there.
C5_ForwardRefKeepsImport ==
    pc = "done" =>
        \A n \in Nodes(tree) :
            ForwardRefUsage(n) =>
                /\ \E m \in Nodes(Parse(result)) :
                      /\ ForwardRefUsage(m)
                      /\ Lhs(m) = Lhs(n)
                      /\ m.value.kind = n.value.kind
                /\ (n.value.kind = "Name" /\ ImportsMember(tree, Lhs(n)))
                      => ImportsMember(Parse(result), Lhs(n))
                /\ (n.value.kind = "Attribute" /\ "typing" \in ModuleBindings(tree))
                      => "typing" \in ModuleBindings(Parse(result))

\* C6: transform returns a text on which a further pass registers no edit.
C6_ReturnsFixedPoint ==
    (run > 1 /\ pc \in { "visited", "imported", "done" }) => operations = <<>>

\* the rendering of the names of a member import whose index is in idx
RECURSIVE Listing(_, _, _)
Listing(names, idx, k) ==
    IF k > Len(names) THEN <<>>
    ELSE IF k \notin idx THEN Listing(names, idx, k + 1)
    ELSE (IF \E j \in idx : j < k THEN <<",">> ELSE <<>>)
         \o <<names[k].name>> \o Listing(names, idx, k + 1)

EditsOver(f) ==
    { k \in 1..Len(operations) :
        /\ operations[k].lineno = f.lineno
        /\ operations[k].col_offset = f.col_offset
        /\ operations[k].end_lineno = f.end_lineno
        /\ operations[k].end_col_offset = f.end_col_offset }

KeptIndexes(f) ==
    { k \in 1..Len(f.names) :
        f.names[k].name \notin { "Optional", "Union" } \/ f.names[k].name \in keep }

\* C7: after rewrite_imports every tracked member import whose names are all
\* dropped has one empty-replacement edit over its span, one that keeps some
\* names has one edit re-rendering it with the kept names in their order, and
\* one that keeps all its names has no edit.
C7_MemberImportPruned ==
    pc = "imported" =>
        /\ import_froms =
              { n \in Nodes(tree) :
                  /\ n.kind = "ImportFrom"
                  /\ n.module = "typing"
                  /\ \E k \in 1..Len(n.names) :
                        n.names[k].name \in { "Optional", "Union" } }
        /\ \A f \in import_froms :
              IF KeptIndexes(f) = 1..Len(f.names)
              THEN EditsOver(f) = {}
              ELSE /\ Cardinality(EditsOver(f)) = 1
                   /\ \A k \in EditsOver(f) :
                        operations[k].text =
                            IF KeptIndexes(f) = {} THEN <<>>
                            ELSE <<"from", "typing", "import">>
                                 \o Listing(f.names, KeptIndexes(f), 1)

C7_Witness ==
    /\ pc = "imported"
    /\ keep # {}
    /\ \E f \in import_froms :
          /\ KeptIndexes(f) # {}
          /\ KeptIndexes(f) # 1..Len(f.names)
          /\ \E k \in KeptIndexes(f) : f.names[k].name \in keep

\* C8: the text transform returns contains no rewritable wrapper usage.
C8_NestedRewritten ==
    (pc = "done" /\ operations # <<>>) =>
        \A n \in Nodes(Parse(result)) : ~RewritableUsage(n)

\* C10: when transform removes the module import, no attribute access through
\* the name it bound remains in the output.
C10_ModuleImportRemovedSafely ==
    pc = "done" =>
        \A b \in ModuleBindings(tree) \ ModuleBindings(Parse(result)) :
            \A n \in Nodes(Parse(result)) :
                ~(n.kind = "Attribute" /\ n.value.kind = "Name" /\ n.value.id = b)

=============================================================================
